---- MODULE Spec2Model ----
(***************************************************************************)
(* State-machine model of the out-of-core block engine of dolphin:         *)
(*   - the block planner (BlockManager.iter_blocks),                       *)
(*   - the background writer (io.Writer on top of BackgroundWriter),       *)
(*   - the mini-stack controller (workflows/single.py,                     *)
(*     run_wrapped_phase_single),                                          *)
(*   - the sequential chain of mini-stacks (run_wrapped_phase_sequential). *)
(* Shapes, strides and half windows are pairs <<row, col>>.  A range is a  *)
(* record [start, stop] standing for Python's slice(start, stop).          *)
(***************************************************************************)
EXTENDS Integers, Sequences, FiniteSets, TLC

\* ------------------------------------------------------------------ bounds
MaxGrid == 6
MaxBlock == 2
MaxStride == 2
MaxHalf == 1
MaxCap == 2             \* largest max_queue a stand-alone writer is created with
MaxReq == 4             \* requests the stand-alone producer enqueues
MaxWriteFailures == 1   \* writes that may fail in one run
MaxSlc == 3             \* real input slices of a sequential run
MaxMiniStackSize == 2   \* largest ministack_size of a sequential run

\* ----------------------------------------------------------------- helpers
Min(a, b) == IF a < b THEN a ELSE b
Max(a, b) == IF a > b THEN a ELSE b
Range(a, b) == [start |-> a, stop |-> b]
RangeLen(r) == r.stop - r.start
InRange(i, r) == r.start <= i /\ i < r.stop

VARIABLES
    plan_args,      \* arguments of the BlockManager: arr_shape, block_shape, strides, half_window
    blocks,         \* blocks = list(block_manager.iter_blocks()), as far as it is built
    plan_status     \* "iterating" while the generator yields, "done" once it is exhausted, else "off"

planVars == <<plan_args, blocks, plan_status>>

VARIABLES
    writer,         \* the io.Writer object: its arguments, queue capacity, worker thread
    queue,          \* the writer's work queue (FIFO), requests not yet taken by the worker
    inflight,       \* <<r>> while the worker persists request r, <<>> otherwise
    persisted,      \* the calls of write_block of this writer that completed, in order
    failed,         \* the requests of this writer whose write raised, in order
    enqueued,       \* the requests accepted by this writer's queue_write, in order
    prod_pc         \* stand-alone producer: "producing", "draining", "finished", "raised", "off"

writerVars == <<writer, queue, inflight, persisted, failed, enqueued>>

VARIABLES
    pc,             \* position of run_wrapped_phase_single, "idle" when it is not running
    ministack,      \* its MiniStackInfo argument: idx, file_list, first_real_slc_idx
    phase_linked_slc_files, \* the per-slice output files made by setup_output_folder
    blk,            \* index (from 1) of the block the loop is at
    slc_i,          \* index (from 1) of the next estimate of the zip loop of lines 219-223
    aux_i,          \* index (from 1) of the next entry of out_datas, lines 252-261
    avg_coh_none,   \* whether run_mle returned None for avg_coh on this block
    fetched,        \* blocks read with vrt.read_stack in this run
    estimated,      \* blocks on which run_mle was called in this run
    all_zero,       \* blocks whose fetched data were all zeros (np.all(cur_data == 0))
    run_mle_out,    \* per block on which run_mle returned: the value it returned
                    \* at one pixel of cur_mle_stack and of tcorr, and the
                    \* reference_idx it was called with
    exc,            \* exceptions raised inside this run: [blk, kind], in order
    written_comp_slc \* <<f>> once line 268 names the compressed-slice file f

ctlVars == <<pc, ministack, phase_linked_slc_files, blk, slc_i, aux_i, avg_coh_none,
             fetched, estimated, all_zero, run_mle_out, exc, written_comp_slc>>

VARIABLES
    chain,          \* "PENDING", "RUNNING", "DONE" or "FAILED"
    chain_args,     \* the run's input: n_slc real slices, ministack_size
    started,        \* indices of the mini-stacks started, in order
    returned_ok,    \* indices of the mini-stacks whose controller returned
    comp_slcs,      \* compressed-slice files of the completed mini-stacks, in order
    all_outputs,    \* per-slice output files of the completed mini-stacks, in order
    result          \* <<r>> once the chain has produced its aggregated result r

chainVars == <<chain, chain_args, started, returned_ok, comp_slcs, all_outputs, result>>

VARIABLES
    cfg,            \* the Workflow configuration of wrapped_phase.run and what is on
                    \* disk when it starts
    run_pc,         \* position of run: "start", "ps", "phase_linking", "ifg", "return",
                    \* "returned", "raised"; "off" when it is not called
    run_locals,     \* local variables of run: <<>> while unbound, <<v>> once assigned v
    run_result,     \* <<t>> once run has returned t
    run_exc         \* <<e>> once exception e has left run

runVars == <<cfg, run_pc, run_locals, run_result, run_exc>>

vars == <<planVars, writerVars, prod_pc, ctlVars, chainVars, runVars>>

\* ------------------------------------------------------------ block planner
\* Shape of the strided output grid.
compute_out_shape(shape, strides) ==
    <<shape[1] \div strides[1], shape[2] \div strides[2]>>

\* Number of tiles of length b needed to cover n output pixels.
NumTiles(n, b) == (n + b - 1) \div b

\* k-th (0-based) tile of the output grid along one axis, the last one clipped.
OutputRange(k, n, b) == Range(k * b, Min((k + 1) * b, n))

\* Full-resolution footprint owned by an output range (no halo).
UnpaddedInputRange(out, s) == Range(out.start * s, out.stop * s)

\* The footprint grown by the half window on both sides, clipped to the grid.
InputRange(unp, h, n) == Range(Max(0, unp.start - h), Min(n, unp.stop + h))

\* Offset of the footprint within the input range, on the stride sampling grid.
TrimmedRange(out, unp, inr, s) ==
    LET off == (unp.start - inr.start) \div s
    IN  Range(off, off + RangeLen(out))

BlockDescriptor(kr, kc, arr_shape, block_shape, strides, half_window) ==
    LET out_shape == compute_out_shape(arr_shape, strides)
        o_r == OutputRange(kr, out_shape[1], block_shape[1])
        o_c == OutputRange(kc, out_shape[2], block_shape[2])
        u_r == UnpaddedInputRange(o_r, strides[1])
        u_c == UnpaddedInputRange(o_c, strides[2])
        i_r == InputRange(u_r, half_window[1], arr_shape[1])
        i_c == InputRange(u_c, half_window[2], arr_shape[2])
    IN  [out_rows |-> o_r, out_cols |-> o_c,
         trimmed_rows |-> TrimmedRange(o_r, u_r, i_r, strides[1]),
         trimmed_cols |-> TrimmedRange(o_c, u_c, i_c, strides[2]),
         in_rows |-> i_r, in_cols |-> i_c,
         in_no_pad_rows |-> u_r, in_no_pad_cols |-> u_c]

\* The whole plan, row-major (top to bottom, left to right).
iter_blocks(arr_shape, block_shape, strides, half_window) ==
    LET out_shape == compute_out_shape(arr_shape, strides)
        nr == NumTiles(out_shape[1], block_shape[1])
        nc == NumTiles(out_shape[2], block_shape[2])
    IN  [k \in 1..(nr * nc) |->
            BlockDescriptor((k - 1) \div nc, (k - 1) % nc,
                            arr_shape, block_shape, strides, half_window)]

\* BlockManager(arr_shape=(nrows, ncols), block_shape=..., strides=...,
\* half_window=...) and list(block_manager.iter_blocks()).
PlanOf_drops_half_window(a) ==
    iter_blocks(a.arr_shape, a.block_shape, a.strides, <<0, 0>>)
PlanOf_rows_cols_swapped(a) ==
    iter_blocks(<<a.arr_shape[2], a.arr_shape[1]>>, a.block_shape, a.strides, a.half_window)
PlanOf(a) == iter_blocks(a.arr_shape, a.block_shape, a.strides, a.half_window)

PlanArgs ==
    [arr_shape : (1..MaxGrid) \X (1..MaxGrid),
     block_shape : (1..MaxBlock) \X (1..MaxBlock),
     strides : (1..MaxStride) \X (1..MaxStride),
     half_window : (0..MaxHalf) \X (0..MaxHalf)]

\* The plan of the worked example: grid 100x100, blocks 32x32, strides 1x1,
\* half window 2x2.
ExamplePlanArgs ==
    [arr_shape |-> <<100, 100>>, block_shape |-> <<32, 32>>, strides |-> <<1, 1>>,
     half_window |-> <<2, 2>>]

\* Arguments at and beyond the edge of what the planner accepts: those of a
\* small plan with one argument replaced, a component of it being -1 or 0.
SmallPlanArgs ==
    [arr_shape |-> <<2, 2>>, block_shape |-> <<1, 1>>, strides |-> <<1, 1>>,
     half_window |-> <<1, 1>>]
EdgePairs == ({-1, 0, 1} \X {-1, 0, 1}) \ {<<1, 1>>}
EdgePlanArgs ==
    {[SmallPlanArgs EXCEPT ![f] = p] :
        f \in {"arr_shape", "block_shape", "strides", "half_window"}, p \in EdgePairs}

\* The planner's check of its arguments: a non-empty grid, block sizes and
\* strides of at least 1, half windows of at least 0.
ValidPlanArgs_any_half_window(a) ==
    /\ a.arr_shape[1] >= 1 /\ a.arr_shape[2] >= 1
    /\ a.block_shape[1] >= 1 /\ a.block_shape[2] >= 1
    /\ a.strides[1] >= 1 /\ a.strides[2] >= 1
ValidPlanArgs(a) ==
    /\ a.arr_shape[1] >= 1 /\ a.arr_shape[2] >= 1
    /\ a.block_shape[1] >= 1 /\ a.block_shape[2] >= 1
    /\ a.strides[1] >= 1 /\ a.strides[2] >= 1
    /\ a.half_window[1] >= 0 /\ a.half_window[2] >= 0

\* The planner is made: it fails with a configuration error on arguments it
\* does not accept, before it yields a block.
PlanInit ==
    /\ plan_args \in PlanArgs \cup EdgePlanArgs \cup {ExamplePlanArgs}
    /\ blocks = <<>>
    /\ plan_status = IF ValidPlanArgs(plan_args) THEN "iterating" ELSE "error"

\* The generator yields its next block and list() appends it.
PlanYield ==
    /\ plan_status = "iterating"
    /\ Len(blocks) < Len(PlanOf(plan_args))
    /\ blocks' = Append(blocks, PlanOf(plan_args)[Len(blocks) + 1])
    /\ UNCHANGED <<plan_args, plan_status, writerVars, prod_pc, ctlVars, chainVars, runVars>>

\* The generator is exhausted: the list is complete.
PlanExhausted ==
    /\ plan_status = "iterating"
    /\ Len(blocks) = Len(PlanOf(plan_args))
    /\ plan_status' = "done"
    /\ UNCHANGED <<plan_args, blocks, writerVars, prod_pc, ctlVars, chainVars, runVars>>



\* -------------------------------------------------------- window statistic
\* lax.dynamic_slice: the start index is clamped so that the slice of the asked
\* size lies within the array.
Clamp(x, lo, hi) == Max(lo, Min(x, hi))

\* estimate_neighbors along one axis, on an array of n pixels that starts at
\* pixel `origin` of the grid: the pixel and the window (start, size) that the
\* value of output pixel out_i is computed from, in grid coordinates.
Window(origin, n, out_i, stride, half) ==
    LET in_i == stride \div 2 + out_i * stride
        i0 == Clamp(in_i - half, 0, n - (2 * half + 1))
    IN  [pixel |-> origin + in_i, start |-> origin + i0, size |-> 2 * half + 1]

\* Line 67, is_shp.at[in_r, in_c].set(False), for output pixel (out_r, out_c)
\* of an array of rows x cols pixels: the elements of the pixel's window array
\* (2*half_row+1 by 2*half_col+1) that are set to False.  The index is the
\* pixel's place in the array, and an update at an index outside the window
\* array is dropped.
SetFalse(rows, cols, out_r, out_c, strides, half) ==
    LET wr == Window(0, rows, out_r, strides[1], half[1])
        wc == Window(0, cols, out_c, strides[2], half[2])
    IN  IF wr.pixel < wr.size /\ wc.pixel < wc.size
        THEN {<<wr.pixel, wc.pixel>>}
        ELSE {}

\* The element of the window array that holds the pixel itself.
Self(rows, cols, out_r, out_c, strides, half) ==
    LET wr == Window(0, rows, out_r, strides[1], half[1])
        wc == Window(0, cols, out_c, strides[2], half[2])
    IN  <<wr.pixel - wr.start, wc.pixel - wc.start>>

\* --------------------------------------------------------- background writer
\* A destination file: input slice, per-slice output, compressed slice or
\* quality layer `idx` of mini-stack `ms`.
File(kind, ms, idx) == [kind |-> kind, ms |-> ms, idx |-> idx]

\* The arguments of one queue_write call; `id` is the identity of the call.
Request(id, data, filename, row_start, col_start) ==
    [id |-> id, data |-> data, file |-> filename, row |-> row_start, col |-> col_start]

NoData == [blk |-> 0, what |-> "slc", slice |-> 0,
           rows |-> Range(0, 0), cols |-> Range(0, 0), val |-> "0"]

\* Default of Writer.__init__'s max_queue.
DefaultMaxQueue == 0

NoWriter == [max_queue |-> 0, debug |-> FALSE, nq |-> 0, thread |-> FALSE,
             direct |-> FALSE]

\* Writer.__init__: in background mode the queue is created with nq = max_queue
\* and the worker thread is started; in debug mode there is no queue, no thread,
\* and queue_write is bound to write (direct).
Writer_init_drops_max_queue(max_queue, debug) ==
    [max_queue |-> max_queue, debug |-> debug, nq |-> DefaultMaxQueue, thread |-> ~debug,
     direct |-> debug]
Writer_init_always_background(max_queue, debug) ==
    [max_queue |-> max_queue, debug |-> debug, nq |-> max_queue, thread |-> TRUE,
     direct |-> FALSE]
Writer_init(max_queue, debug) ==
    IF debug = FALSE
    THEN [max_queue |-> max_queue, debug |-> FALSE, nq |-> max_queue, thread |-> TRUE,
          direct |-> FALSE]
    ELSE [max_queue |-> max_queue, debug |-> TRUE, nq |-> 0, thread |-> FALSE,
          direct |-> TRUE]

\* Whether a put has to wait.  A queue created with nq <= 0 is unbounded.
Full(q, nq) == nq > 0 /\ Len(q) >= nq

\* The worker's get: the oldest request, and the queue without it.
get_newest(q) == [req |-> q[Len(q)], rest |-> SubSeq(q, 1, Len(q) - 1)]
get(q) == [req |-> Head(q), rest |-> Tail(q)]

\* Writer.write: one write_block(data, filename, row_start, col_start) call.
write_nothing(log, req) == log
write(log, req) == Append(log, req)

\* queue_write(data, filename, row_start, col_start) as the calling context sees
\* it.  Background mode: waits while the queue is full, then appends.  Debug
\* mode: queue_write is write, the request is persisted before the call returns.
queue_write(req) ==
    IF writer.direct
    THEN /\ persisted' = write(persisted, req)
         /\ enqueued' = Append(enqueued, req)
         /\ UNCHANGED <<writer, queue, inflight, failed>>
    ELSE /\ ~Full(queue, writer.nq)
         /\ queue' = Append(queue, req)
         /\ enqueued' = Append(enqueued, req)
         /\ UNCHANGED <<writer, inflight, persisted, failed>>

\* Worker thread: take the next request off the queue.
WriterGet ==
    /\ writer.thread
    /\ inflight = <<>>
    /\ queue # <<>>
    /\ inflight' = <<get(queue).req>>
    /\ queue' = get(queue).rest
    /\ UNCHANGED <<writer, persisted, failed, enqueued>>
    /\ UNCHANGED <<planVars, prod_pc, ctlVars, chainVars, runVars>>

\* Worker thread: the write of the request in flight completes.
WriterWriteOk ==
    /\ inflight # <<>>
    /\ persisted' = write(persisted, inflight[1])
    /\ inflight' = <<>>
    /\ UNCHANGED <<writer, queue, failed, enqueued>>
    /\ UNCHANGED <<planVars, prod_pc, ctlVars, chainVars, runVars>>

\* Worker thread: the write of the request in flight raises; the error is kept
\* for the next notify_finished and the worker goes on with the queue.
WriterWriteFails_worker_stops ==
    /\ inflight # <<>>
    /\ Len(failed) < MaxWriteFailures
    /\ failed' = Append(failed, inflight[1])
    /\ inflight' = <<>>
    /\ writer' = [writer EXCEPT !.thread = FALSE]
    /\ UNCHANGED <<queue, persisted, enqueued>>
    /\ UNCHANGED <<planVars, prod_pc, ctlVars, chainVars, runVars>>
WriterWriteFails ==
    /\ inflight # <<>>
    /\ Len(failed) < MaxWriteFailures
    /\ failed' = Append(failed, inflight[1])
    /\ inflight' = <<>>
    /\ UNCHANGED <<writer, queue, persisted, enqueued>>
    /\ UNCHANGED <<planVars, prod_pc, ctlVars, chainVars, runVars>>

\* notify_finished returns or raises only once every request has been handled.
Drained == queue = <<>> /\ inflight = <<>>
WriteError == failed # <<>>

\* ------------------------------------------------ stand-alone writer, producer
WriterFiles == {File("slc", 0, 1), File("slc", 0, 2)}

WriterInit ==
    /\ \E mq \in 0..MaxCap, d \in BOOLEAN : writer = Writer_init(mq, d)
    /\ queue = <<>>
    /\ inflight = <<>>
    /\ persisted = <<>>
    /\ failed = <<>>
    /\ enqueued = <<>>
    /\ prod_pc = "producing"

\* Whether the producer has a further request to enqueue.
ProducerWants == prod_pc = "producing" /\ Len(enqueued) < MaxReq

\* The producer calls queue_write with a new request.
Produce ==
    /\ ProducerWants
    /\ \E f \in WriterFiles :
          queue_write(Request(Len(enqueued) + 1, NoData, f, 0, 0))
    /\ UNCHANGED <<planVars, prod_pc, ctlVars, chainVars, runVars>>

\* The producer calls notify_finished.
ProducerCallsDrain ==
    /\ prod_pc = "producing"
    /\ prod_pc' = "draining"
    /\ UNCHANGED <<planVars, writerVars, ctlVars, chainVars, runVars>>

\* notify_finished returns, or raises the error of a failed write.
ProducerDrainEnds ==
    /\ prod_pc = "draining"
    /\ Drained
    /\ prod_pc' = IF WriteError THEN "raised" ELSE "finished"
    /\ UNCHANGED <<planVars, writerVars, ctlVars, chainVars, runVars>>

\* ------------------------------------------------------ mini-stack controller
NoMiniStack == [idx |-> 0, file_list |-> <<>>, first_real_slc_idx |-> 0]

\* setup_output_folder: one empty output file per entry of the date list from
\* start_idx = first_real_slc_idx on.
setup_output_folder_from_zero(ms) ==
    [k \in 1..Len(ms.file_list) |-> File("slc", ms.idx, ms.file_list[k].idx)]
setup_output_folder(ms) ==
    [k \in 1..(Len(ms.file_list) - ms.first_real_slc_idx) |->
        File("slc", ms.idx, ms.file_list[ms.first_real_slc_idx + k].idx)]

\* output_files: compressed slice, tcorr, avg_coh, shp_counts.
output_files(ms) ==
    <<File("comp", ms.idx, 0), File("tcorr", ms.idx, 0),
      File("avg_coh", ms.idx, 0), File("shp_counts", ms.idx, 0)>>

\* What a queued array is: a part of a result of block b, with the value val
\* at the pixel that run_mle_out follows.
Payload(b, what, slice, rows, cols, val) ==
    [blk |-> b, what |-> what, slice |-> slice, rows |-> rows, cols |-> cols,
     val |-> val]

\* A floating-point value: zero, another finite number, NaN, an infinity, or
\* the largest and the most negative finite number of the dtype.
NonFinite == {"nan", "posinf", "neginf"}
FloatValues == {"0", "finite", "max_float", "min_float"} \cup NonFinite

\* What run_mle may return: the values at a pixel of cur_mle_stack and of
\* tcorr, and whether avg_coh is None.
RunMleOutputs ==
    {[mle |-> "finite", tcorr |-> "finite", avg_coh_none |-> FALSE],
     [mle |-> "nan", tcorr |-> "posinf", avg_coh_none |-> TRUE],
     [mle |-> "posinf", tcorr |-> "neginf", avg_coh_none |-> FALSE],
     [mle |-> "neginf", tcorr |-> "nan", avg_coh_none |-> TRUE]}

\* np.nan_to_num(x, copy=False) with its default arguments: NaN becomes 0.0,
\* +inf the largest finite number of the dtype, -inf the most negative one.
nan_to_num(x) ==
    CASE x = "nan" -> "0"
      [] x = "posinf" -> "max_float"
      [] x = "neginf" -> "min_float"
      [] OTHER -> x

\* Length of zip(cur_mle_stack[first_real_slc_idx:], phase_linked_slc_files).
ZipLen == Min(Len(ministack.file_list) - ministack.first_real_slc_idx,
              Len(phase_linked_slc_files))

\* `continue`: the loop goes to the block after b, or ends after the last one.
LoopContinues(b) ==
    /\ blk' = b + 1
    /\ pc' = IF b + 1 > Len(blocks) THEN "drain" ELSE "read"

\* An exception that no handler of the loop catches leaves
\* run_wrapped_phase_single.
Swallowed == LoopContinues(blk)
Propagates ==
    /\ pc' = "raised"
    /\ blk' = blk

\* if np.all(cur_data == 0): continue.
OnAllZero_falls_through == blk' = blk /\ pc' = "estimate"
OnAllZero == LoopContinues(blk)

\* except PhaseLinkRuntimeError: log the message, continue with the next block.
OnPhaseLinkRuntimeError_breaks == blk' = blk /\ pc' = "drain"
OnPhaseLinkRuntimeError == LoopContinues(blk)

\* Lines 70-153: open the stack, create the writer, the empty output files and
\* the list of blocks.  Any failure here leaves the function.
Setup ==
    /\ pc = "setup"
    /\ fetched' = {}
    /\ estimated' = {}
    /\ all_zero' = {}
    /\ run_mle_out' = <<>>
    /\ written_comp_slc' = <<>>
    /\ \/ /\ ValidPlanArgs(plan_args)
          /\ writer' = Writer_init(DefaultMaxQueue, FALSE)
          /\ queue' = <<>>
          /\ inflight' = <<>>
          /\ persisted' = <<>>
          /\ failed' = <<>>
          /\ enqueued' = <<>>
          /\ phase_linked_slc_files' = setup_output_folder(ministack)
          /\ blocks' = PlanOf(plan_args)
          /\ plan_status' = "done"
          /\ exc' = <<>>
          /\ blk' = 1
          /\ pc' = IF PlanOf(plan_args) = <<>> THEN "drain" ELSE "read"
       \/ /\ \/ exc' = <<[blk |-> 0, kind |-> "setup"]>>
             \/ /\ ~ValidPlanArgs(plan_args)
                /\ exc' = <<[blk |-> 0, kind |-> "ConfigurationError"]>>
          /\ pc' = "raised"
          /\ blk' = 0
          /\ phase_linked_slc_files' = <<>>
          /\ UNCHANGED <<writerVars, blocks, plan_status>>
    /\ UNCHANGED <<plan_args, prod_pc, ministack, slc_i, aux_i, avg_coh_none, chainVars, runVars>>

\* Lines 161-163: read the block; skip it when it is all zeros.
ReadBlock ==
    /\ pc = "read"
    /\ fetched' = fetched \cup {blk}
    /\ \/ /\ pc' = "estimate"                       \* some data
          /\ UNCHANGED <<blk, exc, all_zero>>
       \/ /\ all_zero' = all_zero \cup {blk}       \* np.all(cur_data == 0)
          /\ OnAllZero
          /\ UNCHANGED exc
       \/ /\ exc' = Append(exc, [blk |-> blk, kind |-> "read_stack"])
          /\ Propagates
          /\ UNCHANGED all_zero
    /\ UNCHANGED <<planVars, writerVars, prod_pc, ministack, phase_linked_slc_files,
                   slc_i, aux_i, avg_coh_none, estimated, run_mle_out, written_comp_slc,
                   chainVars, runVars>>

\* The values a caller may give for the argument reference_idx (default 0).
ReferenceIdxArgs == 0..MaxSlc

\* Line 182: reference_idx = max(0, first_real_slc_idx - 1), assigned in every
\* turn of the loop over what the caller gave.
reference_idx_as_given(arg) == arg
reference_idx(arg) == Max(0, ministack.first_real_slc_idx - 1)

\* A call of run_mle that returned: what it returned and the reference_idx
\* it was passed (line 190).
Called(out, ref) ==
    [mle |-> out.mle, tcorr |-> out.tcorr, avg_coh_none |-> out.avg_coh_none,
     reference_idx |-> ref]

\* Lines 164-217: neighbors and run_mle on the block.
Estimate ==
    /\ pc = "estimate"
    /\ \/ /\ exc' = Append(exc, [blk |-> blk, kind |-> "estimate_neighbors"])
          /\ Propagates
          /\ UNCHANGED <<estimated, avg_coh_none, slc_i, run_mle_out>>
       \/ /\ estimated' = estimated \cup {blk}
          /\ \/ /\ \E out \in RunMleOutputs, arg \in ReferenceIdxArgs :   \* run_mle returns
                      /\ avg_coh_none' = out.avg_coh_none
                      /\ run_mle_out' = [b \in (DOMAIN run_mle_out) \cup {blk} |->
                                            IF b = blk THEN Called(out, reference_idx(arg))
                                            ELSE run_mle_out[b]]
                /\ slc_i' = 1
                /\ pc' = IF ZipLen = 0 THEN "compress" ELSE "queue_slc"
                /\ UNCHANGED <<blk, exc>>
             \/ /\ exc' = Append(exc, [blk |-> blk, kind |-> "PhaseLinkRuntimeError"])
                /\ OnPhaseLinkRuntimeError
                /\ UNCHANGED <<avg_coh_none, slc_i, run_mle_out>>
             \/ /\ exc' = Append(exc, [blk |-> blk, kind |-> "run_mle"])
                /\ Propagates
                /\ UNCHANGED <<avg_coh_none, slc_i, run_mle_out>>
    /\ UNCHANGED <<planVars, writerVars, prod_pc, ministack, phase_linked_slc_files,
                   aux_i, fetched, all_zero, written_comp_slc, chainVars, runVars>>

\* The arrays of a turn of the block loop.  run_mle, np.sum and compress
\* return arrays of their own on every call, so an array is known by the block
\* it was made for and the name it is bound to.
NewArray_reused(b, name) == [blk |-> 0, name |-> name]
NewArray(b, name) == [blk |-> b, name |-> name]

\* The array a queued payload is a view of: the per-slice images are views of
\* cur_mle_stack (line 220), data[trimmed_rows, trimmed_cols] is a view of
\* tcorr, avg_coh or shp_counts (line 257), the compressed block is passed whole.
BufferOf(d) ==
    NewArray(d.blk, CASE d.what = "slc" -> "cur_mle_stack"
                      [] d.what = "comp" -> "cur_comp_slc"
                      [] OTHER -> d.what)

\* The arrays a step of the loop writes into in place: lines 212-213,
\* np.nan_to_num(..., copy=False) on cur_mle_stack and tcorr, once run_mle has
\* returned.  Every other statement of the loop binds a name to a new array.
InPlaceWrites ==
    IF pc = "estimate" /\ pc' \in {"queue_slc", "compress"}
    THEN {NewArray(blk, "cur_mle_stack"), NewArray(blk, "tcorr")}
    ELSE {}

\* cur_mle_stack[first_real_slc_idx:][i - 1]: position in the stack (from 1)
\* of the i-th estimate that is saved.
RealEstimate_from_zero(i) == i
RealEstimate(i) == ministack.first_real_slc_idx + i

\* The arrays as they are when they are queued: lines 211-213 have filled
\* cur_mle_stack and tcorr; the compressed block is computed from the filled
\* estimates; avg_coh and shp_counts are integer arrays.
Enqueued(what) ==
    CASE what = "slc" -> nan_to_num(run_mle_out[blk].mle)
      [] what = "tcorr" -> nan_to_num(run_mle_out[blk].tcorr)
      [] OTHER -> "finite"

\* Lines 219-223: one turn of the zip loop, the estimate of real slice slc_i
\* goes to that slice's output file.
QueueSlc ==
    /\ pc = "queue_slc"
    /\ LET b == blocks[blk]
       IN  queue_write(Request(Len(enqueued) + 1,
                               Payload(blk, "slc", RealEstimate(slc_i),
                                       b.trimmed_rows, b.trimmed_cols, Enqueued("slc")),
                               phase_linked_slc_files[slc_i],
                               b.out_rows.start, b.out_cols.start))
    /\ IF slc_i < ZipLen
       THEN slc_i' = slc_i + 1 /\ pc' = "queue_slc"
       ELSE slc_i' = slc_i /\ pc' = "compress"
    /\ UNCHANGED <<planVars, prod_pc, ministack, phase_linked_slc_files, blk, aux_i,
                   avg_coh_none, fetched, estimated, all_zero, run_mle_out, exc, written_comp_slc, chainVars, runVars>>

\* The region of a strided output file (per-slice output or quality layer)
\* that the requests of block b fill: an array of the extent of trimmed_range
\* written at (out_rows.start, out_cols.start), lines 219-223 and 256-261.
WrittenRegion_at_trimmed_offset(b) ==
    [rows |-> Range(b.trimmed_rows.start, b.trimmed_rows.start + RangeLen(b.trimmed_rows)),
     cols |-> Range(b.trimmed_cols.start, b.trimmed_cols.start + RangeLen(b.trimmed_cols))]
WrittenRegion(b) ==
    [rows |-> Range(b.out_rows.start, b.out_rows.start + RangeLen(b.trimmed_rows)),
     cols |-> Range(b.out_cols.start, b.out_cols.start + RangeLen(b.trimmed_cols))]

\* Python's slice(start, stop) applied to an axis of length n: a negative
\* index counts from the end, indices are clipped to 0..n, and the selection
\* is empty when the stop is not after the start.
SliceIndices(sl, n) ==
    LET norm(i) == IF i < 0 THEN Max(0, n + i) ELSE Min(i, n)
    IN  Range(norm(sl.start), Max(norm(sl.start), norm(sl.stop)))

\* Lines 229-234: trim_full = slice(in_no_pad.start - in.start,
\* in_no_pad.stop - in.stop), along one axis.
trim_full(in_no_pad, inr) ==
    Range(in_no_pad.start - inr.start, in_no_pad.stop - inr.stop)

\* cur_data[..., trim_full] along one axis, as a range of the full grid:
\* cur_data holds the pixels of the input range.
FullResSelection(in_no_pad, inr) ==
    LET ix == SliceIndices(trim_full(in_no_pad, inr), RangeLen(inr))
    IN  Range(inr.start + ix.start, inr.start + ix.stop)

\* Lines 225-239: shp_counts and the compressed block.
Compress ==
    /\ pc = "compress"
    /\ \/ /\ pc' = "queue_comp"
          /\ UNCHANGED <<blk, exc>>
       \/ /\ exc' = Append(exc, [blk |-> blk, kind |-> "compress"])
          /\ Propagates
    /\ UNCHANGED <<planVars, writerVars, prod_pc, ministack, phase_linked_slc_files,
                   slc_i, aux_i, avg_coh_none, fetched, estimated, all_zero, run_mle_out, written_comp_slc,
                   chainVars, runVars>>

\* Lines 243-249: the compressed block goes to the compressed-slice file.
QueueComp ==
    /\ pc = "queue_comp"
    /\ LET b == blocks[blk]
       IN  queue_write(Request(Len(enqueued) + 1,
                               Payload(blk, "comp", 0,
                                       FullResSelection(b.in_no_pad_rows, b.in_rows),
                                       FullResSelection(b.in_no_pad_cols, b.in_cols),
                                       Enqueued("comp")),
                               output_files(ministack)[1],
                               b.in_no_pad_rows.start, b.in_no_pad_cols.start))
    /\ aux_i' = 1
    /\ pc' = "queue_aux"
    /\ UNCHANGED <<planVars, prod_pc, ministack, phase_linked_slc_files, blk, slc_i,
                   avg_coh_none, fetched, estimated, all_zero, run_mle_out, exc, written_comp_slc, chainVars, runVars>>

\* out_datas = [tcorr, avg_coh, shp_counts]: whether entry i is None.
IsNone(i) == i = 2 /\ avg_coh_none
\* Index of the first entry of out_datas from i on that is not None, 4 if none.
NextData(i) == IF i <= 3 /\ IsNone(i) THEN i + 1 ELSE i

\* Lines 251-261: one queue_write of the loop over the strided outputs; entries
\* that are None are passed over.
QueueAux_at_trimmed_offset ==
    /\ pc = "queue_aux"
    /\ LET b == blocks[blk]
           i == NextData(aux_i)
       IN  /\ queue_write(Request(Len(enqueued) + 1,
                                  Payload(blk, output_files(ministack)[i + 1].kind, 0,
                                          b.trimmed_rows, b.trimmed_cols,
                                          Enqueued(output_files(ministack)[i + 1].kind)),
                                  output_files(ministack)[i + 1],
                                  b.trimmed_rows.start, b.trimmed_cols.start))
           /\ IF NextData(i + 1) <= 3
              THEN aux_i' = i + 1 /\ pc' = "queue_aux" /\ blk' = blk
              ELSE aux_i' = 1 /\ LoopContinues(blk)
    /\ UNCHANGED <<planVars, prod_pc, ministack, phase_linked_slc_files, slc_i,
                   avg_coh_none, fetched, estimated, all_zero, run_mle_out, exc, written_comp_slc, chainVars, runVars>>
QueueAux ==
    /\ pc = "queue_aux"
    /\ LET b == blocks[blk]
           i == NextData(aux_i)
       IN  /\ queue_write(Request(Len(enqueued) + 1,
                                  Payload(blk, output_files(ministack)[i + 1].kind, 0,
                                          b.trimmed_rows, b.trimmed_cols,
                                          Enqueued(output_files(ministack)[i + 1].kind)),
                                  output_files(ministack)[i + 1],
                                  b.out_rows.start, b.out_cols.start))
           /\ IF NextData(i + 1) <= 3
              THEN aux_i' = i + 1 /\ pc' = "queue_aux" /\ blk' = blk
              ELSE aux_i' = 1 /\ LoopContinues(blk)
    /\ UNCHANGED <<planVars, prod_pc, ministack, phase_linked_slc_files, slc_i,
                   avg_coh_none, fetched, estimated, all_zero, run_mle_out, exc, written_comp_slc, chainVars, runVars>>

\* Lines 263-266: writer.notify_finished() returns once the writer has handled
\* every request, or raises the error of a failed write.
NotifyFinished_skipped ==
    /\ pc = "drain"
    /\ pc' = "metadata"
    /\ UNCHANGED <<planVars, writerVars, prod_pc, ministack, phase_linked_slc_files,
                   blk, slc_i, aux_i, avg_coh_none, fetched, estimated, all_zero, run_mle_out, exc,
                   written_comp_slc, chainVars, runVars>>
NotifyFinished ==
    /\ pc = "drain"
    /\ Drained
    /\ IF WriteError
       THEN /\ exc' = Append(exc, [blk |-> Len(blocks) + 1, kind |-> "write"])
            /\ pc' = "raised"
       ELSE /\ pc' = "metadata"
            /\ UNCHANGED exc
    /\ UNCHANGED <<planVars, writerVars, prod_pc, ministack, phase_linked_slc_files,
                   blk, slc_i, aux_i, avg_coh_none, fetched, estimated, all_zero, run_mle_out,
                   written_comp_slc, chainVars, runVars>>

\* Lines 268-273: the metadata of the compressed slice is written and the
\* function returns.
written_comp_slc_is_tcorr(ms) == output_files(ms)[2]
WrittenCompSlc(ms) == output_files(ms)[1]
WriteMetadata ==
    /\ pc = "metadata"
    /\ written_comp_slc' = <<WrittenCompSlc(ministack)>>
    /\ returned_ok' = returned_ok \cup {ministack.idx}
    /\ pc' = "returned"
    /\ UNCHANGED <<planVars, writerVars, prod_pc, ministack, phase_linked_slc_files,
                   blk, slc_i, aux_i, avg_coh_none, fetched, estimated, all_zero, run_mle_out, exc,
                   chain, chain_args, started, comp_slcs, all_outputs, result, runVars>>

\* The output files a step of run_wrapped_phase_single writes itself, by a call
\* made on its own context after line 103 has created the writer: the empty
\* per-slice files (setup_output_folder, io.write_arr at line 379), the empty
\* compressed-slice and quality files (io.write_arr at lines 126-135), and the
\* compressed-slice file once more at line 271 (write_metadata).
DirectWrites ==
    CASE pc = "setup" /\ pc' # "raised" ->
            {phase_linked_slc_files'[k] : k \in 1..Len(phase_linked_slc_files')}
                \cup {output_files(ministack)[k] : k \in 1..4}
      [] pc = "metadata" /\ pc' = "returned" -> {WrittenCompSlc(ministack)}
      [] OTHER -> {}

\* The files that exist in the folder run_wrapped_phase_single works in: the
\* empty files made at lines 107-135, which the writer then fills.
Created ==
    IF pc \in {"idle", "setup"} \/ (pc = "raised" /\ blk = 0)
    THEN {}
    ELSE {phase_linked_slc_files[k] : k \in 1..Len(phase_linked_slc_files)}
            \cup {output_files(ministack)[k] : k \in 1..4}

\* How far the decorated function is: "running", "returned" or "raised".
Outcome ==
    CASE pc = "returned" -> "returned"
      [] pc = "raised" -> "raised"
      [] OTHER -> "running"

\* @atomic_output(output_arg="output_folder", is_dir=True): the function is
\* given a temporary directory as output_folder; the directory is renamed to
\* the requested folder when the function returns and discarded when it raises.
\* The value is what the requested folder shows.
atomic_output_in_place(outcome, created) == created
atomic_output(outcome, created) ==
    IF outcome = "returned" THEN created ELSE {}

\* The outputs of the current mini-stack visible in the requested output folder.
Visible == atomic_output(Outcome, Created)

\* ------------------------------------------------------------ sequential chain
NumMiniStacks(a) == (a.n_slc + a.ministack_size - 1) \div a.ministack_size

\* The real input slices of mini-stack i (from 0), in time order.
RealSlices(a, i) ==
    [k \in 1..(Min((i + 1) * a.ministack_size, a.n_slc) - i * a.ministack_size) |->
        File("input", 0, i * a.ministack_size + k)]

\* Mini-stack i: the compressed slices so far lead the list as synthetic entries.
MiniStackInfo(a, i, comps) ==
    [idx |-> i, file_list |-> comps \o RealSlices(a, i), first_real_slc_idx |-> Len(comps)]

\* The compressed slice the controller that just returned has produced.
CarriedSlice ==
    IF written_comp_slc # <<>> THEN written_comp_slc[1] ELSE File("none", ministack.idx, 0)

\* RUNNING(i) is left for RUNNING(i+1) or DONE only on a successful return.
MayAdvance_after_raise == pc \in {"returned", "raised"}
MayAdvance == pc = "returned"

\* PENDING -> RUNNING(0).
ChainStart ==
    /\ chain = "PENDING"
    /\ chain' = "RUNNING"
    /\ started' = <<0>>
    /\ ministack' = MiniStackInfo(chain_args, 0, <<>>)
    /\ pc' = "setup"
    /\ UNCHANGED <<planVars, writerVars, prod_pc, phase_linked_slc_files, blk, slc_i,
                   aux_i, avg_coh_none, fetched, estimated, all_zero, run_mle_out, exc, written_comp_slc,
                   chain_args, returned_ok, comp_slcs, all_outputs, result, runVars>>

\* RUNNING(i) -> RUNNING(i+1): the compressed slice of i is carried forward.
ChainAdvance ==
    /\ chain = "RUNNING"
    /\ MayAdvance
    /\ ministack.idx + 1 < NumMiniStacks(chain_args)
    /\ comp_slcs' = Append(comp_slcs, CarriedSlice)
    /\ all_outputs' = all_outputs \o phase_linked_slc_files
    /\ started' = Append(started, ministack.idx + 1)
    /\ ministack' = MiniStackInfo(chain_args, ministack.idx + 1, comp_slcs')
    /\ pc' = "setup"
    /\ UNCHANGED <<planVars, writerVars, prod_pc, phase_linked_slc_files, blk, slc_i,
                   aux_i, avg_coh_none, fetched, estimated, all_zero, run_mle_out, exc, written_comp_slc,
                   chain, chain_args, returned_ok, result, runVars>>

\* RUNNING(last) -> DONE: the outputs are aggregated.
ChainDone ==
    /\ chain = "RUNNING"
    /\ MayAdvance
    /\ ministack.idx + 1 = NumMiniStacks(chain_args)
    /\ chain' = "DONE"
    /\ comp_slcs' = Append(comp_slcs, CarriedSlice)
    /\ all_outputs' = all_outputs \o phase_linked_slc_files
    /\ result' = <<[outputs |-> all_outputs', comp_slc |-> CarriedSlice,
                    tcorr |-> File("tcorr_average", 0, 0)]>>
    /\ pc' = "idle"
    /\ UNCHANGED <<planVars, writerVars, prod_pc, ministack, phase_linked_slc_files,
                   blk, slc_i, aux_i, avg_coh_none, fetched, estimated, all_zero, run_mle_out, exc,
                   written_comp_slc, chain_args, started, returned_ok, runVars>>

\* RUNNING(i) -> FAILED: the controller raised.
ChainFail ==
    /\ chain = "RUNNING"
    /\ pc = "raised"
    /\ chain' = "FAILED"
    /\ UNCHANGED <<planVars, writerVars, prod_pc, ctlVars, chain_args, started,
                   returned_ok, comp_slcs, all_outputs, result, runVars>>

\* ------------------------------------------------- workflow entry point: run
\* The configurations run is called with, and the state of its directories.
Cfgs ==
    [workflow_name : {"single", "sequential"},
     n_files : 0..MaxSlc,                   \* len(cfg.cslc_file_list)
     ministack_size : 1..MaxMiniStackSize,
     ps_exists : BOOLEAN,                   \* the PS output file exists
     pl_exists : BOOLEAN,                   \* pl_path holds 2*.tif files
     comp_exists : BOOLEAN,                 \* pl_path holds a compressed*tif file
     tcorr_exists : BOOLEAN,                \* pl_path holds a tcorr*tif file
     gpu_is_available : BOOLEAN,            \* utils.gpu_is_available()
     ifg_exists : BOOLEAN,                  \* ifg_dir holds *.int.* files
     indexes : {"None", "first_last", "other", "several"}]

\* The locals of run that its later steps and its return statement read.
Unbound ==
    [phase_linked_slcs |-> <<>>, comp_slcs |-> <<>>, comp_slc_file |-> <<>>,
     tcorr_file |-> <<>>, ifg_file_list |-> <<>>, watcher |-> <<>>]

\* Python's None as a returned value; a returned tuple is a sequence.
None == <<>>

\* run_wrapped_phase_single has no return statement: it returns None.
run_wrapped_phase_single == None

\* run_wrapped_phase_sequential over n slices: the per-slice outputs in time
\* order, the compressed slice of every mini-stack, the averaged tcorr file.
run_wrapped_phase_sequential(n, ministack_size) ==
    LET a == [n_slc |-> n, ministack_size |-> ministack_size]
    IN  <<[k \in 1..n |-> File("slc", (k - 1) \div ministack_size, k)],
          [i \in 1..NumMiniStacks(a) |-> output_files([idx |-> i - 1])[1]],
          File("tcorr_average", 0, 0)>>

\* pl_path.glob(pattern): the files that match, none when none exists.
Glob_finds_always(exists, file) == <<file>>
Glob(exists, file) == IF exists THEN <<file>> ELSE <<>>

\* comp_slc_file = comp_slcs[-1].
Last(files) == files[Len(files)]

\* An exception leaves run: `by` tells whether a collaborator raised it
\* ("callee"), a raise statement of run ("raise"), or the interpreter on a
\* statement of run that it cannot execute ("statement").
RunRaises(kind, by) ==
    /\ run_exc' = <<[kind |-> kind, by |-> by]>>
    /\ run_pc' = "raised"
    /\ UNCHANGED <<run_locals, run_result>>

\* An exception leaves run in a step that has bound locals before it.
RunRaisesWith(kind, by, locals) ==
    /\ run_exc' = <<[kind |-> kind, by |-> by]>>
    /\ run_pc' = "raised"
    /\ run_locals' = locals
    /\ UNCHANGED run_result

\* Lines 105-108: the NvidiaMemoryWatcher is started when a GPU is available,
\* else watcher = None.
StartWatcher(locals) ==
    [locals EXCEPT !.watcher = <<IF cfg.gpu_is_available THEN "running" ELSE "None">>]

\* Lines 154-155: if watcher: watcher.notify_finished().
NotifyWatcher(locals) ==
    IF locals.watcher = <<"running">>
    THEN [locals EXCEPT !.watcher = <<"finished">>]
    ELSE locals

\* A step of run ends and binds (or leaves) the locals.
RunGoes(to, locals) ==
    /\ run_pc' = to
    /\ run_locals' = locals
    /\ UNCHANGED <<run_result, run_exc>>

\* Lines 40-62: the input list is checked, the VRT stack is made.
RunStart ==
    /\ run_pc = "start"
    /\ IF cfg.n_files = 0
       THEN RunRaises("ValueError", "raise")
       ELSE \/ RunGoes("ps", run_locals)
            \/ RunRaises("VRTStack", "callee")
    /\ UNCHANGED <<cfg, planVars, writerVars, prod_pc, ctlVars, chainVars>>

\* Lines 67-87: the PS file is made unless it exists.
RunPs ==
    /\ run_pc = "ps"
    /\ \/ RunGoes("phase_linking", run_locals)
       \/ ~cfg.ps_exists /\ RunRaises("create_ps", "callee")
    /\ UNCHANGED <<cfg, planVars, writerVars, prod_pc, ctlVars, chainVars>>

\* Lines 96-155: the phase linking step, skipped when pl_path holds outputs.
RunPhaseLinking ==
    /\ run_pc = "phase_linking"
    /\ IF cfg.pl_exists
       THEN LET comp == Glob(cfg.comp_exists, File("comp", 0, 0))
                tcorr == Glob(cfg.tcorr_exists, File("tcorr", 0, 0))
            IN  IF comp = <<>> \/ tcorr = <<>>      \* next() of an empty glob
                THEN RunRaises("StopIteration", "callee")
                ELSE RunGoes("ifg",
                             [run_locals EXCEPT
                                 !.phase_linked_slcs =
                                     <<[k \in 1..cfg.n_files |-> File("slc", 0, k)]>>,
                                 !.comp_slc_file = <<comp[1]>>,
                                 !.tcorr_file = <<tcorr[1]>>])
       ELSE IF cfg.workflow_name = "single"
       THEN \/ LET ret == run_wrapped_phase_single
                   watched == StartWatcher(run_locals)
               IN  IF Len(ret) = 3                      \* a, b, c = ret
                   THEN RunGoes("ifg",
                                NotifyWatcher(
                                    [watched EXCEPT !.phase_linked_slcs = <<ret[1]>>,
                                                    !.comp_slc_file = <<ret[2]>>,
                                                    !.tcorr_file = <<ret[3]>>]))
                   ELSE RunRaisesWith("TypeError", "statement", watched)
            \/ RunRaisesWith("run_wrapped_phase_single", "callee",
                             StartWatcher(run_locals))
       ELSE \/ LET ret == run_wrapped_phase_sequential(cfg.n_files, cfg.ministack_size)
                   watched == StartWatcher(run_locals)
               IN  RunGoes("ifg",
                           NotifyWatcher(
                               [watched EXCEPT !.phase_linked_slcs = <<ret[1]>>,
                                               !.comp_slcs = <<ret[2]>>,
                                               !.tcorr_file = <<ret[3]>>,
                                               !.comp_slc_file = <<Last(ret[2])>>]))
            \/ RunRaisesWith("run_wrapped_phase_sequential", "callee",
                             StartWatcher(run_locals))
    /\ UNCHANGED <<cfg, planVars, writerVars, prod_pc, ctlVars, chainVars>>

\* Lines 160-209: the interferograms, skipped when ifg_dir holds some; the
\* skipped step assigns nothing to ifg_file_list.
RunIfg ==
    /\ run_pc = "ifg"
    /\ IF cfg.ifg_exists
       THEN RunGoes("return", run_locals)
       ELSE IF cfg.workflow_name = "single"
       THEN IF cfg.indexes # "first_last"
            THEN RunRaises("NotImplementedError", "raise")
            ELSE \/ RunGoes("return",
                            [run_locals EXCEPT
                                !.ifg_file_list = <<<<File("ifg", 0, cfg.n_files)>>>>])
                 \/ RunRaises("copyfile", "callee")
       ELSE \/ RunRaises("ValueError", "raise")       \* len(network) == 0
            \/ RunGoes("return",
                       [run_locals EXCEPT
                           !.ifg_file_list =
                               <<[k \in 1..Len(run_locals.phase_linked_slcs[1]) |->
                                     File("ifg", 0, k)]>>])
            \/ RunRaises("Network", "callee")
    /\ UNCHANGED <<cfg, planVars, writerVars, prod_pc, ctlVars, chainVars>>

\* Line 211: return ifg_file_list, comp_slc_file, tcorr_file.  Reading a local
\* that was never assigned raises UnboundLocalError.
RunReturn ==
    /\ run_pc = "return"
    /\ IF \/ run_locals.ifg_file_list = <<>>
          \/ run_locals.comp_slc_file = <<>>
          \/ run_locals.tcorr_file = <<>>
       THEN RunRaises("UnboundLocalError", "statement")
       ELSE /\ run_result' = <<<<run_locals.ifg_file_list[1], run_locals.comp_slc_file[1],
                                 run_locals.tcorr_file[1]>>>>
            /\ run_pc' = "returned"
            /\ UNCHANGED <<run_locals, run_exc>>
    /\ UNCHANGED <<cfg, planVars, writerVars, prod_pc, ctlVars, chainVars>>

\* ----------------------------------------------------------- specifications
RunIdle ==
    /\ cfg = [workflow_name |-> "sequential", n_files |-> 1, ministack_size |-> 1,
              ps_exists |-> FALSE, pl_exists |-> FALSE, comp_exists |-> FALSE,
              tcorr_exists |-> FALSE, gpu_is_available |-> FALSE, ifg_exists |-> FALSE,
              indexes |-> "None"]
    /\ run_pc = "off"
    /\ run_locals = Unbound
    /\ run_result = <<>>
    /\ run_exc = <<>>

PlanIdle ==
    /\ plan_args = [arr_shape |-> <<1, 1>>, block_shape |-> <<1, 1>>,
                    strides |-> <<1, 1>>, half_window |-> <<0, 0>>]
    /\ blocks = <<>>
    /\ plan_status = "off"

WriterIdle ==
    /\ writer = NoWriter
    /\ queue = <<>>
    /\ inflight = <<>>
    /\ persisted = <<>>
    /\ failed = <<>>
    /\ enqueued = <<>>

CtlIdle ==
    /\ pc = "idle"
    /\ ministack = NoMiniStack
    /\ phase_linked_slc_files = <<>>
    /\ blk = 0
    /\ slc_i = 1
    /\ aux_i = 1
    /\ avg_coh_none = FALSE
    /\ fetched = {}
    /\ estimated = {}
    /\ all_zero = {}
    /\ run_mle_out = <<>>
    /\ exc = <<>>
    /\ written_comp_slc = <<>>

ChainIdle ==
    /\ chain = "off"
    /\ chain_args = [n_slc |-> 1, ministack_size |-> 1]
    /\ started = <<>>
    /\ returned_ok = {}
    /\ comp_slcs = <<>>
    /\ all_outputs = <<>>
    /\ result = <<>>

\* The block planner alone, over all small arguments.
InitPlan == PlanInit /\ WriterIdle /\ prod_pc = "off" /\ CtlIdle /\ ChainIdle /\ RunIdle
PlanNext == PlanYield \/ PlanExhausted
SpecPlan == InitPlan /\ [][PlanNext]_vars

\* The writer alone, fed by a producer that enqueues and then drains.
WriterNext ==
    \/ Produce
    \/ ProducerCallsDrain
    \/ ProducerDrainEnds
    \/ WriterGet
    \/ WriterWriteOk
    \/ WriterWriteFails
InitWriter == WriterInit /\ PlanIdle /\ CtlIdle /\ ChainIdle /\ RunIdle
SpecWriter == InitWriter /\ [][WriterNext]_vars

\* The stand-alone writer when every write_block call succeeds.  The worker is
\* a thread of its own that the scheduler runs whenever it can take or write a
\* request, and a notify_finished whose wait is over returns: weak fairness
\* on the worker's two steps and on the end of the drain.
WriterLiveNext ==
    \/ Produce
    \/ ProducerCallsDrain
    \/ ProducerDrainEnds
    \/ WriterGet
    \/ WriterWriteOk
SpecWriterLive ==
    /\ InitWriter
    /\ [][WriterLiveNext]_vars
    /\ WF_vars(WriterGet)
    /\ WF_vars(WriterWriteOk)
    /\ WF_vars(ProducerDrainEnds)

\* The stand-alone writer with writes that may fail, under the same
\* scheduling: the worker takes a request whenever one waits, a write that
\* was started ends (it completes or it raises), a drain whose wait is over
\* ends.
SpecWriterFair ==
    /\ InitWriter
    /\ [][WriterNext]_vars
    /\ WF_vars(WriterGet)
    /\ WF_vars(WriterWriteOk \/ WriterWriteFails)
    /\ WF_vars(ProducerDrainEnds)

\* The geometries the sequential run is checked on: two blocks side by side,
\* one block of a strided grid, two blocks one above the other, and one that
\* the planner does not accept.
RunPlanArgs ==
    {[arr_shape |-> <<2, 4>>, block_shape |-> <<2, 2>>,
      strides |-> <<1, 0>>, half_window |-> <<1, 1>>],
     [arr_shape |-> <<2, 4>>, block_shape |-> <<2, 2>>,
      strides |-> <<1, 1>>, half_window |-> <<1, 1>>],
     [arr_shape |-> <<4, 4>>, block_shape |-> <<2, 2>>,
      strides |-> <<2, 2>>, half_window |-> <<1, 1>>],
     [arr_shape |-> <<2, 4>>, block_shape |-> <<1, 2>>,
      strides |-> <<1, 2>>, half_window |-> <<0, 1>>]}

\* A sequential run: the chain, the controller of the running mini-stack and
\* the worker thread of its writer.
Init ==
    /\ plan_args \in RunPlanArgs
    /\ blocks = <<>>
    /\ plan_status = "off"
    /\ WriterIdle
    /\ prod_pc = "off"
    /\ CtlIdle
    /\ chain = "PENDING"
    /\ chain_args \in [n_slc : 1..MaxSlc, ministack_size : 1..MaxMiniStackSize]
    /\ started = <<>>
    /\ returned_ok = {}
    /\ comp_slcs = <<>>
    /\ all_outputs = <<>>
    /\ result = <<>>
    /\ RunIdle

Next ==
    \/ ChainStart
    \/ ChainAdvance
    \/ ChainDone
    \/ ChainFail
    \/ Setup
    \/ ReadBlock
    \/ Estimate
    \/ QueueSlc
    \/ Compress
    \/ QueueComp
    \/ QueueAux
    \/ NotifyFinished
    \/ WriteMetadata
    \/ WriterGet
    \/ WriterWriteOk
    \/ WriterWriteFails
Spec == Init /\ [][Next]_vars

\* The entry point alone, over all small configurations; the phase linking
\* it calls is taken as one step.
InitRun ==
    /\ cfg \in Cfgs
    /\ run_pc = "start"
    /\ run_locals = Unbound
    /\ run_result = <<>>
    /\ run_exc = <<>>
    /\ PlanIdle /\ WriterIdle /\ prod_pc = "off" /\ CtlIdle /\ ChainIdle
RunNext ==
    \/ RunStart
    \/ RunPs
    \/ RunPhaseLinking
    \/ RunIfg
    \/ RunReturn
SpecRun == InitRun /\ [][RunNext]_vars

\* -------------------------------------------------------------- properties
OutShapeOf(a) == compute_out_shape(a.arr_shape, a.strides)

\* Number of blocks built so far whose output_range holds output pixel (r, c).
Owners(r, c) ==
    Cardinality({k \in 1..Len(blocks) :
                    /\ InRange(r, blocks[k].out_rows)
                    /\ InRange(c, blocks[k].out_cols)})

\* C1: the output_ranges of a plan tile the strided output grid exactly: each
\* output_range is a non-empty part of the grid, no output pixel is in two of
\* them, and once the plan is complete every output pixel is in exactly one.
C1_OutputTilingExact ==
    plan_status # "error" =>
    LET os == OutShapeOf(plan_args)
    IN  /\ \A k \in 1..Len(blocks) :
              /\ 0 <= blocks[k].out_rows.start
              /\ blocks[k].out_rows.start < blocks[k].out_rows.stop
              /\ blocks[k].out_rows.stop <= os[1]
              /\ 0 <= blocks[k].out_cols.start
              /\ blocks[k].out_cols.start < blocks[k].out_cols.stop
              /\ blocks[k].out_cols.stop <= os[2]
        /\ \A r \in 0..(os[1] - 1), c \in 0..(os[2] - 1) :
              /\ Owners(r, c) <= 1
              /\ plan_status = "done" => Owners(r, c) = 1

\* A complete plan of several blocks on a strided grid whose last tiles are clipped.
C1_Witness ==
    /\ plan_status = "done"
    /\ Len(blocks) >= 4
    /\ plan_args.strides = <<2, 1>>
    /\ plan_args.half_window = <<1, 1>>
    /\ \E k \in 1..Len(blocks) :
          RangeLen(blocks[k].out_cols) < plan_args.block_shape[2]

\* Position of request r in a log, 0 when it is not there.
Pos(log, r) ==
    IF \E k \in 1..Len(log) : log[k] = r
    THEN CHOOSE k \in 1..Len(log) : log[k] = r
    ELSE 0

\* C2: requests are persisted in enqueue order, whatever their destination:
\* when a request has been persisted, every request enqueued before it was
\* persisted before it (or its write has failed).
C2_FifoPersistOrder ==
    \A i, j \in 1..Len(enqueued) :
        (i < j /\ Pos(persisted, enqueued[j]) > 0) =>
            \/ Pos(failed, enqueued[i]) > 0
            \/ /\ Pos(persisted, enqueued[i]) > 0
               /\ Pos(persisted, enqueued[i]) < Pos(persisted, enqueued[j])

\* The background writer has persisted requests to two files while others wait.
C2_Witness ==
    /\ ~writer.debug
    /\ Len(persisted) >= 2
    /\ persisted[1].file # persisted[2].file
    /\ Len(queue) >= 2
    /\ failed = <<>>

\* C3: with a queue of capacity k = max_queue > 0, a producer that has a request
\* to enqueue can do so exactly when fewer than k requests are queued: with k
\* queued it waits, and a single dequeue lets it go on.
C3_Backpressure ==
    (~writer.debug /\ writer.max_queue > 0) =>
        /\ Len(queue) <= writer.max_queue
        /\ ProducerWants => ((ENABLED Produce) <=> Len(queue) < writer.max_queue)

\* k requests enqueued, none taken by the worker, the producer has more: it waits.
C3_Witness ==
    /\ ~writer.debug
    /\ writer.max_queue = 2
    /\ Len(queue) = 2
    /\ Len(enqueued) = 2
    /\ inflight = <<>>
    /\ persisted = <<>>
    /\ ProducerWants
    /\ ~ENABLED Produce

\* The controller is between the creation of its writer and its return.
Running == pc \in {"read", "estimate", "queue_slc", "compress", "queue_comp",
                   "queue_aux", "drain", "metadata"}

\* C4 (as claimed): while run_wrapped_phase_single processes a mini-stack, the
\* requests pending in the writer queue stay within the capacity the writer was
\* created with.
C4_PendingWithinCapacity ==
    Running => Len(queue) <= writer.max_queue

\* C5: when run_wrapped_phase_single returns, the writer queue is empty, no
\* write is in flight and every request it enqueued has been persisted.
C5_ReturnsAfterDrain ==
    pc = "returned" =>
        /\ queue = <<>>
        /\ inflight = <<>>
        /\ \A k \in 1..Len(enqueued) : Pos(persisted, enqueued[k]) > 0

\* The controller has returned from a mini-stack of two processed blocks.
C5_Witness ==
    /\ pc = "returned"
    /\ Len(blocks) = 2
    /\ estimated = {1, 2}
    /\ Len(enqueued) >= 8
    /\ Len(persisted) = Len(enqueued)

\* C6: the mini-stacks are started in index order 0, 1, 2, ...; the controller
\* that runs is that of the mini-stack started last, and every mini-stack
\* started before it has returned successfully.
C6_OneAtATimeInOrder ==
    /\ \A k \in 1..Len(started) : started[k] = k - 1
    /\ \A k \in 1..(Len(started) - 1) : started[k] \in returned_ok
    /\ pc # "idle" => (started # <<>> /\ ministack.idx = started[Len(started)])

\* The third mini-stack runs.
C6_Witness ==
    /\ Len(started) = 3
    /\ pc = "estimate"
    /\ returned_ok = {0, 1}

\* Number of synthetic (compressed) entries at the head of a file list.
LeadingSynthetic(fl) ==
    Cardinality({k \in 1..Len(fl) : \A j \in 1..k : fl[j].kind = "comp"})

\* C7: the file list of mini-stack i+1 holds the compressed slice written by
\* mini-stack i among its leading synthetic entries, and first_real_slc_idx is
\* the number of synthetic entries at the head of the list.
C7_CompressedSliceCarried ==
    (chain = "RUNNING" /\ pc # "idle") =>
        /\ ministack.first_real_slc_idx = LeadingSynthetic(ministack.file_list)
        /\ ministack.idx >= 1 =>
              \E k \in 1..ministack.first_real_slc_idx :
                  ministack.file_list[k] = output_files([idx |-> ministack.idx - 1])[1]

\* The third mini-stack runs on two compressed slices and its real slices.
C7_Witness ==
    /\ chain = "RUNNING"
    /\ ministack.idx = 2
    /\ ministack.first_real_slc_idx = 2
    /\ Len(ministack.file_list) = 3
    /\ pc = "read"

\* A fatal error has occurred inside the running mini-stack.
Fatal == \E k \in 1..Len(exc) : exc[k].kind # "PhaseLinkRuntimeError"

\* C8: once a fatal error has occurred inside mini-stack i, no further
\* mini-stack is started, no aggregated result is produced, and the chain can
\* only go to FAILED, which it reaches without a result.
C8_FatalAbortsChain ==
    /\ [](Fatal => /\ started[Len(started)] = ministack.idx
                   /\ result = <<>>
                   /\ chain \in {"RUNNING", "FAILED"}
                   /\ (chain = "RUNNING" => ENABLED ChainFail))
    /\ [](chain = "FAILED" => (Fatal /\ result = <<>>))
    /\ [][Fatal => (started' = started /\ result' = <<>> /\ chain' \in {"RUNNING", "FAILED"})]_vars

\* The chain has failed in its second mini-stack of three.
C8_Witness ==
    /\ chain = "FAILED"
    /\ Fatal
    /\ started = <<0, 1>>
    /\ NumMiniStacks(chain_args) = 3

C10_OtherExceptionAborts ==
    \A k \in 1..Len(exc) :
        (exc[k].kind # "PhaseLinkRuntimeError" /\ exc[k].blk \in 1..Len(blocks)) =>
            /\ pc = "raised"
            /\ blk = exc[k].blk
            /\ \A b \in fetched \cup estimated : b <= exc[k].blk
            /\ \A r \in 1..Len(enqueued) : enqueued[r].data.blk <= exc[k].blk

\* compress raised on the first of two blocks, after its estimates were queued.
C10_Witness ==
    /\ pc = "raised"
    /\ Len(blocks) = 2
    /\ exc = <<[blk |-> 1, kind |-> "compress"]>>
    /\ enqueued # <<>>

\* C11: a block whose fetched data are all zeros is skipped: run_mle is not
\* called on it, no request of it is enqueued, no exception is raised for it,
\* and the loop goes on after it; when the loop is left normally every later
\* block has been read.
C11_AllZeroBlockSkipped ==
    \A b \in all_zero :
        /\ b \in fetched
        /\ b \notin estimated
        /\ b \notin DOMAIN run_mle_out
        /\ \A r \in 1..Len(enqueued) : enqueued[r].data.blk # b
        /\ \A k \in 1..Len(exc) : exc[k].blk # b
        /\ blk > b
        /\ pc \in {"drain", "metadata", "returned"} =>
              \A c \in (b + 1)..Len(blocks) : c \in fetched

\* The first of two blocks was all zeros, the second was processed and
\* written, the controller has returned.
C11_Witness ==
    /\ pc = "returned"
    /\ Len(blocks) = 2
    /\ all_zero = {1}
    /\ estimated = {2}
    /\ exc = <<>>
    /\ enqueued # <<>>

\* The value run_mle returned where the payload d of a request has its value.
Returned(d) ==
    IF d.what = "slc" THEN run_mle_out[d.blk].mle ELSE run_mle_out[d.blk].tcorr

\* C12 (as claimed): no enqueued estimate or temporal-correlation payload holds
\* a non-finite value, and where run_mle returned NaN, +inf or -inf the
\* enqueued value is zero.
C12_NonFiniteBecomesZero ==
    \A r \in 1..Len(enqueued) :
        enqueued[r].data.what \in {"slc", "tcorr"} =>
            /\ enqueued[r].data.val \notin NonFinite
            /\ Returned(enqueued[r].data) \in NonFinite => enqueued[r].data.val = "0"

\* C13: once the write of a request of the running mini-stack has failed, the
\* controller does not get past notify_finished: it writes no compressed-slice
\* metadata and does not return, the chain produces no result, and what
\* notify_finished raises is the write error.
C13_WriteFailureSurfaces ==
    failed # <<>> =>
        /\ pc \notin {"metadata", "returned", "idle"}
        /\ written_comp_slc = <<>>
        /\ ministack.idx \notin returned_ok
        /\ chain # "DONE"
        /\ result = <<>>
        /\ (pc = "raised" /\ exc[Len(exc)].blk > Len(blocks)) =>
              exc[Len(exc)].kind = "write"

\* A request of the second block failed to persist, every block was processed,
\* and notify_finished has raised.
C13_Witness ==
    /\ pc = "raised"
    /\ Len(blocks) = 2
    /\ estimated = {1, 2}
    /\ Len(failed) = 1
    /\ failed[1].data.blk = 2
    /\ exc = <<[blk |-> 3, kind |-> "write"]>>

\* C14: the input_range of every block of a plan lies within the grid:
\* 0 <= start <= stop <= number of rows (of columns).
C14_InputRangeWithinGrid ==
    \A k \in 1..Len(blocks) :
        /\ 0 <= blocks[k].in_rows.start
        /\ blocks[k].in_rows.start <= blocks[k].in_rows.stop
        /\ blocks[k].in_rows.stop <= plan_args.arr_shape[1]
        /\ 0 <= blocks[k].in_cols.start
        /\ blocks[k].in_cols.start <= blocks[k].in_cols.stop
        /\ blocks[k].in_cols.stop <= plan_args.arr_shape[2]

\* A complete plan with a half window whose blocks touch all four grid edges,
\* the halo of the first and of the last block being cut off by the edge.
C14_Witness ==
    /\ plan_status = "done"
    /\ plan_args.half_window = <<1, 1>>
    /\ Len(blocks) >= 4
    /\ blocks[1].in_rows.start = blocks[1].in_no_pad_rows.start
    /\ blocks[1].in_cols.start = blocks[1].in_no_pad_cols.start
    /\ blocks[Len(blocks)].in_rows.stop = plan_args.arr_shape[1]
    /\ blocks[Len(blocks)].in_cols.stop = plan_args.arr_shape[2]
    /\ blocks[Len(blocks)].in_no_pad_rows.stop = plan_args.arr_shape[1]

\* A block whose input_range touches no edge of the grid.
Interior(b, a) ==
    /\ 0 < b.in_rows.start
    /\ b.in_rows.stop < a.arr_shape[1]
    /\ 0 < b.in_cols.start
    /\ b.in_cols.stop < a.arr_shape[2]

\* The window statistic agrees along one axis: for every output pixel i of the
\* output range, the value at its place of the trimmed range, computed on the
\* input range alone, comes from the same pixel and the same window as the
\* value at i computed on the whole axis of n pixels.
WindowsAgree(out, trimmed, inr, n, stride, half) ==
    \A i \in out.start..(out.stop - 1) :
        Window(inr.start, RangeLen(inr), trimmed.start + (i - out.start), stride, half)
            = Window(0, n, i, stride, half)

\* C15 (as claimed): for every interior block the window statistic of radius
\* half_window computed on the input_range sub-array gives over trimmed_range
\* what the statistic computed on the whole grid gives on output_range.
C15_HaloWindowsAgree ==
    \A k \in 1..Len(blocks) :
        Interior(blocks[k], plan_args) =>
            /\ WindowsAgree(blocks[k].out_rows, blocks[k].trimmed_rows, blocks[k].in_rows,
                            plan_args.arr_shape[1], plan_args.strides[1],
                            plan_args.half_window[1])
            /\ WindowsAgree(blocks[k].out_cols, blocks[k].trimmed_cols, blocks[k].in_cols,
                            plan_args.arr_shape[2], plan_args.strides[2],
                            plan_args.half_window[2])

\* C16: when a sequential run over n_slc real slices is DONE, the per-slice
\* output files made by its mini-stacks are exactly n_slc: the k-th is the
\* output of real slice k, none is the output of a compressed slice, and they
\* are the outputs the run returns.
C16_OneOutputPerRealSlice ==
    chain = "DONE" =>
        /\ Len(all_outputs) = chain_args.n_slc
        /\ \A k \in 1..Len(all_outputs) :
              /\ all_outputs[k].kind = "slc"
              /\ all_outputs[k].idx = k
              /\ all_outputs[k].ms = (k - 1) \div chain_args.ministack_size
        /\ result[1].outputs = all_outputs

\* Three slices in mini-stacks of two: the second mini-stack holds the
\* compressed slice of the first and one real slice.
C16_Witness ==
    /\ chain = "DONE"
    /\ chain_args = [n_slc |-> 3, ministack_size |-> 2]
    /\ Len(comp_slcs) = 2
    /\ Len(all_outputs) = 3

\* The requests enqueued for block b that carry the estimate of slice sl.
SlcRequests(b, sl) ==
    {r \in 1..Len(enqueued) :
        /\ enqueued[r].data.blk = b
        /\ enqueued[r].data.what = "slc"
        /\ enqueued[r].data.slice = sl}

\* The zip loop of lines 219-223 has run for block b.
SlcQueued(b) ==
    /\ b \in DOMAIN run_mle_out
    /\ \/ blk > b
       \/ blk = b /\ pc \in {"compress", "queue_comp", "queue_aux", "raised"}

\* C17: every enqueued estimate is that of a real slice (its place in the
\* stack is after the first_real_slc_idx leading compressed slices) and goes to
\* the output file of that slice; once the estimates of a block are queued
\* there is exactly one request for each real slice.
C17_OnlyRealSlicesEnqueued ==
    (Running \/ pc = "returned" \/ (pc = "raised" /\ blk > 0)) =>
        /\ \A r \in 1..Len(enqueued) :
              enqueued[r].data.what = "slc" =>
                  /\ enqueued[r].data.slice > ministack.first_real_slc_idx
                  /\ enqueued[r].data.slice <= Len(ministack.file_list)
                  /\ ministack.file_list[enqueued[r].data.slice].kind = "input"
                  /\ enqueued[r].file =
                        File("slc", ministack.idx,
                             ministack.file_list[enqueued[r].data.slice].idx)
        /\ \A b \in 1..Len(blocks) :
              SlcQueued(b) =>
                  \A sl \in 1..Len(ministack.file_list) :
                      Cardinality(SlcRequests(b, sl)) =
                          IF sl > ministack.first_real_slc_idx THEN 1 ELSE 0

\* The third mini-stack, two compressed slices and one real slice, two blocks
\* processed: two estimates were enqueued, both of the real slice.
C17_Witness ==
    /\ pc = "returned"
    /\ ministack.first_real_slc_idx = 2
    /\ Len(ministack.file_list) = 3
    /\ DOMAIN run_mle_out = {1, 2}
    /\ Cardinality({r \in 1..Len(enqueued) : enqueued[r].data.what = "slc"}) = 2

\* C18: a writer created with debug=True never holds a request: every request
\* its queue_write accepted is persisted when the call returns, in call order;
\* and that sequence of writes is what the background writer has persisted
\* once a notify_finished has returned.
C18_DebugWritesSynchronously ==
    /\ writer.debug =>
          /\ queue = <<>>
          /\ inflight = <<>>
          /\ persisted = enqueued
    /\ (~writer.debug /\ prod_pc = "finished") => persisted = enqueued

\* A debug writer has written to both files while its producer goes on.
C18_Witness ==
    /\ writer.debug
    /\ prod_pc = "producing"
    /\ Len(persisted) = 3
    /\ persisted[1].file # persisted[2].file
    /\ persisted = enqueued

\* C19 (as claimed): an execution of run in which no collaborator raises and no
\* raise statement of run rejects the configuration returns, whether a step
\* was skipped or not, the triple (list of paths, compressed slice, temporal
\* correlation file); when the sequential phase linking ran, the compressed
\* slice is that of the last mini-stack.
C19_RunReturnsTriple ==
    /\ run_pc = "raised" => run_exc[1].by # "statement"
    /\ run_pc = "returned" =>
          /\ Len(run_result[1]) = 3
          /\ run_result[1][1] # <<>>
          /\ run_result[1][2].kind = "comp"
          /\ run_result[1][3].kind \in {"tcorr", "tcorr_average"}
          /\ (cfg.workflow_name = "sequential" /\ ~cfg.pl_exists) =>
                run_result[1][2] =
                    output_files([idx |-> NumMiniStacks([n_slc |-> cfg.n_files,
                                      ministack_size |-> cfg.ministack_size]) - 1])[1]

\* Some component of the pair is zero or negative.
NonPositive(p) == p[1] <= 0 \/ p[2] <= 0
Negative(p) == p[1] < 0 \/ p[2] < 0

Below(k, m) ==
    /\ blocks[k].out_cols = blocks[m].out_cols
    /\ blocks[k].out_rows.stop = blocks[m].out_rows.start
RightOf(k, m) ==
    /\ blocks[k].out_rows = blocks[m].out_rows
    /\ blocks[k].out_cols.stop = blocks[m].out_cols.start

\* The input ranges of every two blocks of the complete plan that share an
\* edge have exactly n pixels in common across that edge.
NeighboursOverlapBy(n) ==
    \A k, m \in 1..Len(blocks) :
        /\ Below(k, m) => blocks[k].in_rows.stop - blocks[m].in_rows.start = n
        /\ RightOf(k, m) => blocks[k].in_cols.stop - blocks[m].in_cols.start = n

\* C21 (as claimed): for grid 100x100, block shape 32x32, stride 1x1 and
\* half window 2x2 the planner yields exactly 16 blocks, and the input ranges
\* of two blocks that share an edge overlap by exactly 2 pixels across it.
C21_ExampleOverlapsByTwo ==
    (plan_args = ExamplePlanArgs /\ plan_status = "done") =>
        (Len(blocks) = 16 /\ NeighboursOverlapBy(2))

\* C21 (amended): for the same plan the planner yields exactly 16 blocks,
\* each input range reaches exactly 2 pixels past every edge it shares with a
\* neighbour, and so the input ranges of two such blocks overlap by exactly
\* 4 pixels across the edge.
C21_ExampleOverlapsByFour ==
    (plan_args = ExamplePlanArgs /\ plan_status = "done") =>
        /\ Len(blocks) = 16
        /\ NeighboursOverlapBy(4)
        /\ \A k, m \in 1..Len(blocks) :
              /\ Below(k, m) =>
                    /\ blocks[k].in_rows.stop = blocks[k].in_no_pad_rows.stop + 2
                    /\ blocks[m].in_rows.start = blocks[m].in_no_pad_rows.start - 2
              /\ RightOf(k, m) =>
                    /\ blocks[k].in_cols.stop = blocks[k].in_no_pad_cols.stop + 2
                    /\ blocks[m].in_cols.start = blocks[m].in_no_pad_cols.start - 2

\* The example's plan is complete and holds blocks that share an edge.
C21_Witness ==
    /\ plan_args = ExamplePlanArgs
    /\ plan_status = "done"
    /\ \E k, m \in 1..Len(blocks) : Below(k, m)
    /\ \E k, m \in 1..Len(blocks) : RightOf(k, m)

\* Every request the writer has accepted has been persisted.
AllPersisted ==
    \A k \in 1..Len(enqueued) : \E j \in 1..Len(persisted) : persisted[j] = enqueued[k]

\* C22: writes of different mini-stacks are never interleaved.  A writer
\* handles the requests of one mini-stack only, and when the writer of the
\* next mini-stack is created (the step that empties the list of accepted
\* requests) every request of the mini-stack before it has been persisted:
\* none is queued, in flight or failed.
C22_MiniStackWritesNotInterleaved ==
    /\ [][(enqueued # <<>> /\ enqueued' = <<>>) =>
            (Drained /\ ~WriteError /\ AllPersisted)]_vars
    /\ [](\A k, m \in 1..Len(enqueued) : enqueued[k].file.ms = enqueued[m].file.ms)
    /\ []((Running /\ enqueued # <<>>) => enqueued[1].file.ms = ministack.idx)

\* The second mini-stack has a request persisted, after the first one had
\* requests of its own persisted and returned.
C22_Witness ==
    /\ ministack.idx = 1
    /\ 0 \in returned_ok
    /\ persisted # <<>>
    /\ persisted[1].file.ms = 1
    /\ Len(all_outputs) > 0

\* Number of places of sequence q that hold request r.
Occurrences(q, r) == Cardinality({k \in 1..Len(q) : q[k] = r})

\* Number of places the writer holds request r at: waiting in the queue, in
\* the worker's hands, written, or failed.
Held(r) ==
    Occurrences(queue, r) + Occurrences(inflight, r)
        + Occurrences(persisted, r) + Occurrences(failed, r)

\* C23: each enqueued request is handed from the producer to the consumer
\* exactly once.  Under every interleaving an accepted request is at exactly
\* one place (queued, in flight, written or failed), so none is written twice
\* and none is lost, and once a drain has completed without error every
\* accepted request has been written exactly once.
C23_ExactlyOnceHandoff ==
    /\ \A k \in 1..Len(enqueued) :
          /\ Occurrences(enqueued, enqueued[k]) = 1
          /\ Held(enqueued[k]) = 1
    /\ Len(queue) + Len(inflight) + Len(persisted) + Len(failed) = Len(enqueued)
    /\ prod_pc = "finished" =>
          \A k \in 1..Len(enqueued) : Occurrences(persisted, enqueued[k]) = 1

\* A drain of a background writer with a queue of capacity 1 has completed
\* after several requests went through the queue.
C23_Witness ==
    /\ prod_pc = "finished"
    /\ writer.thread
    /\ writer.nq = 1
    /\ Len(enqueued) >= 3
    /\ Len(persisted) = Len(enqueued)

\* The requests handed to the writer and not yet persisted.
Unpersisted == {queue[k] : k \in 1..Len(queue)} \cup {inflight[k] : k \in 1..Len(inflight)}

\* C24: the compute context never mutates an array after handing it to the
\* writer.  No step of the block loop writes in place into an array that a
\* request still queued or in flight is, or is a view of.
C24_NoMutationAfterHandoff ==
    [][\A r \in Unpersisted : BufferOf(r.data) \notin InPlaceWrites]_vars

\* The estimates of the second block have been filled in place while requests
\* of the first block, views of its estimates among them, are not yet persisted.
C24_Witness ==
    /\ pc \in {"queue_slc", "compress"}
    /\ blk = 2
    /\ 2 \in DOMAIN run_mle_out
    /\ \E r \in Unpersisted : r.data.blk = 1 /\ r.data.what = "slc"
    /\ \E r \in Unpersisted : r.data.blk = 1 /\ r.data.what = "tcorr"

\* C25: from the creation of the background writer until the end of the
\* mini-stack controller, the compute context never writes to an output file
\* itself.
C25_ComputeNeverWritesFiles ==
    [][DirectWrites = {}]_vars

\* C26: if the mini-stack controller aborts with a fatal error (during setup,
\* in a block, or at the drain) no output of that mini-stack is visible in the
\* requested output folder, nor is any while it runs; the outputs appear there
\* only when the controller has completed successfully.
C26_OutputsVisibleOnlyOnSuccess ==
    /\ pc = "raised" => Visible = {}
    /\ Running => Visible = {}
    /\ pc = "returned" => (Visible = Created /\ Visible # {})

\* The controller has aborted at the drain on a failed write, after output
\* files were created and some requests were persisted in them.
C26_Witness ==
    /\ pc = "raised"
    /\ Created # {}
    /\ persisted # <<>>
    /\ exc[Len(exc)].kind = "write"

\* The quality layers: the entries of out_datas.
AuxLayers == {"tcorr", "avg_coh", "shp_counts"}

\* The requests (places in the list of accepted requests) that carry layer
\* `what` of block b.
AuxRequests(b, what) ==
    {r \in 1..Len(enqueued) : enqueued[r].data.blk = b /\ enqueued[r].data.what = what}

\* The loop over out_datas (lines 252-261) has run for block b.
AuxQueued(b) == b \in DOMAIN run_mle_out /\ blk > b

\* Every quality layer of a block that is present (not None) has been
\* enqueued once, a layer that is None not at all, and the array of each
\* request is data[trimmed_rows, trimmed_cols].
AuxSourceTrimmed ==
    /\ \A r \in 1..Len(enqueued) :
          enqueued[r].data.what \in AuxLayers =>
              /\ enqueued[r].data.rows = blocks[enqueued[r].data.blk].trimmed_rows
              /\ enqueued[r].data.cols = blocks[enqueued[r].data.blk].trimmed_cols
    /\ \A b \in 1..Len(blocks) :
          AuxQueued(b) =>
              \A what \in AuxLayers :
                  Cardinality(AuxRequests(b, what)) =
                      IF what = "avg_coh" /\ run_mle_out[b].avg_coh_none THEN 0 ELSE 1

\* C27 (as claimed): every quality layer that is present is enqueued with its
\* source selected by trimmed_range and with its destination row/column
\* offset given by trimmed_range as well.
C27_AuxAtTrimmedOffset ==
    (Running \/ pc = "returned" \/ (pc = "raised" /\ blk > 0)) =>
        /\ AuxSourceTrimmed
        /\ \A r \in 1..Len(enqueued) :
              enqueued[r].data.what \in AuxLayers =>
                  /\ enqueued[r].row = blocks[enqueued[r].data.blk].trimmed_rows.start
                  /\ enqueued[r].col = blocks[enqueued[r].data.blk].trimmed_cols.start

\* C27 (amended): every quality layer that is present is enqueued with its
\* source selected by trimmed_range and with its destination row/column
\* offset given by the start of output_range.
C27_AuxAtOutputOffset ==
    (Running \/ pc = "returned" \/ (pc = "raised" /\ blk > 0)) =>
        /\ AuxSourceTrimmed
        /\ \A r \in 1..Len(enqueued) :
              enqueued[r].data.what \in AuxLayers =>
                  /\ enqueued[r].row = blocks[enqueued[r].data.blk].out_rows.start
                  /\ enqueued[r].col = blocks[enqueued[r].data.blk].out_cols.start

\* The quality layers of a second block have been enqueued, avg_coh being
\* None on it, and the block's trimmed_range does not start where its
\* output_range does.
C27_Witness ==
    /\ AuxQueued(2)
    /\ run_mle_out[2].avg_coh_none
    /\ AuxRequests(2, "tcorr") # {}
    /\ AuxRequests(2, "shp_counts") # {}
    /\ blocks[2].trimmed_cols.start # blocks[2].out_cols.start

\* run has got past its phase linking step.
PastPhaseLinking == run_pc \in {"ifg", "return", "returned"}

\* C28: the workflow reuses existing phase-linking outputs (gets past the
\* skipped step with them, and returns a result) only if the compressed-slice
\* file exists, and then it is that file that it carries; when per-slice
\* outputs exist and the compressed-slice file does not, run ends without a
\* result.
C28_ReuseNeedsCompressedSlice ==
    /\ (cfg.pl_exists /\ PastPhaseLinking) =>
          /\ cfg.comp_exists
          /\ run_locals.comp_slc_file = <<File("comp", 0, 0)>>
    /\ (cfg.pl_exists /\ ~cfg.comp_exists) => run_result = <<>>
    /\ (cfg.pl_exists /\ ~cfg.comp_exists /\ run_pc = "raised") =>
          run_exc[1].kind \in {"StopIteration", "ValueError", "VRTStack", "create_ps"}

\* Per-slice outputs and the tcorr file exist, the compressed-slice file does
\* not: the phase linking step was skipped and run has ended with the
\* StopIteration of next().
C28_Witness ==
    /\ cfg.pl_exists
    /\ cfg.tcorr_exists
    /\ ~cfg.comp_exists
    /\ run_pc = "raised"
    /\ run_exc[1].kind = "StopIteration"

\* C29: for every block of a plan, those clipped at a grid edge and those
\* without a halo included, the input sub-array selected for compression
\* (cur_data[..., trim_full_row, trim_full_col]) has exactly the extent of
\* unpadded_input_range and is not empty.
C29_CompressionInputIsUnpadded ==
    \A k \in 1..Len(blocks) :
        LET b == blocks[k]
            rows == FullResSelection(b.in_no_pad_rows, b.in_rows)
            cols == FullResSelection(b.in_no_pad_cols, b.in_cols)
        IN  /\ rows = b.in_no_pad_rows
            /\ cols = b.in_no_pad_cols
            /\ RangeLen(rows) > 0
            /\ RangeLen(cols) > 0

\* Two regions have a pixel in common.
Overlap(p, q) ==
    /\ Max(p.rows.start, q.rows.start) < Min(p.rows.stop, q.rows.stop)
    /\ Max(p.cols.start, q.cols.start) < Min(p.cols.stop, q.cols.stop)

\* C30: for any plan the regions that distinct blocks write into the same
\* strided output file (at the start of output_range, with the extent of
\* trimmed_range) do not overlap, and the regions of all blocks of the plan
\* (none skipped) cover the whole strided output grid.
C30_WrittenRegionsTileOutput ==
    plan_status # "error" =>
        /\ \A k, m \in 1..Len(blocks) :
              k # m => ~Overlap(WrittenRegion(blocks[k]), WrittenRegion(blocks[m]))
        /\ plan_status = "done" =>
              \A r \in 0..(OutShapeOf(plan_args)[1] - 1), c \in 0..(OutShapeOf(plan_args)[2] - 1) :
                  \E k \in 1..Len(blocks) :
                      /\ InRange(r, WrittenRegion(blocks[k]).rows)
                      /\ InRange(c, WrittenRegion(blocks[k]).cols)

\* A complete plan of several blocks with strides 2 and a halo, in which a
\* block's trimmed_range starts elsewhere than its output_range.
C30_Witness ==
    /\ plan_status = "done"
    /\ Len(blocks) >= 4
    /\ plan_args.strides = <<2, 2>>
    /\ plan_args.half_window = <<1, 1>>
    /\ \E k \in 1..Len(blocks) : blocks[k].trimmed_rows.start # blocks[k].out_rows.start

\* C31: in the "single" workflow a successful run_wrapped_phase_single hands
\* run the three values it takes from it (phase-linked outputs, compressed
\* slice, quality map): once the call has returned, run is past its phase
\* linking step with the three locals bound, and does not fail on the
\* returned value.
C31_SingleResultTaken ==
    (cfg.workflow_name = "single" /\ ~cfg.pl_exists) =>
        /\ run_pc = "raised" => run_exc[1].kind # "TypeError"
        /\ PastPhaseLinking =>
              /\ run_locals.phase_linked_slcs # <<>>
              /\ run_locals.comp_slc_file # <<>>
              /\ run_locals.tcorr_file # <<>>

\* The request of the id-th queue_write call has been accepted / persisted.
Accepted(id) == Len(enqueued) >= id
Persisted(id) == \E j \in 1..Len(persisted) : persisted[j].id = id

\* C32: when every write succeeds and the worker is scheduled fairly, every
\* enqueued request is eventually persisted and every call of notify_finished
\* eventually returns.
C32_EventuallyPersistedAndDrained ==
    /\ \A id \in 1..MaxReq : Accepted(id) ~> Persisted(id)
    /\ (prod_pc = "draining") ~> (prod_pc = "finished")

\* A background writer with a queue of capacity 2 has persisted as many
\* requests as a producer enqueues, and the drain has returned.
C32_Witness ==
    /\ prod_pc = "finished"
    /\ writer.thread
    /\ writer.nq = 2
    /\ Len(persisted) = MaxReq
    /\ \A id \in 1..MaxReq : Persisted(id)

C34_ReferenceIsLastCompressed ==
    pc # "setup" =>
        \A b \in DOMAIN run_mle_out :
            LET ref == run_mle_out[b].reference_idx
            IN  IF ministack.first_real_slc_idx = 0
                THEN ref = 0
                ELSE /\ ref = ministack.first_real_slc_idx - 1
                     /\ ministack.file_list[ref + 1].kind = "comp"
                     /\ ministack.file_list[ref + 2].kind = "input"

\* The third mini-stack, led by two compressed slices, has estimated a block
\* with the second of them as the reference.
C34_Witness ==
    /\ ministack.first_real_slc_idx = 2
    /\ pc \in {"queue_slc", "compress"}
    /\ blk \in DOMAIN run_mle_out
    /\ run_mle_out[blk].reference_idx = 1

\* C35: whenever run has started the GPU memory watcher, the watcher has been
\* notified to finish once the phase linking step is left, on every exit path
\* of the step, the one where phase linking raises included.
C35_WatcherAlwaysNotified ==
    (PastPhaseLinking \/ run_pc = "raised") => run_locals.watcher # <<"running">>

\* C36: in the GLRT neighbor estimate on the data of a block, for every
\* output pixel the centre element of its window, which is the pixel itself,
\* is marked False: a pixel is never counted as its own neighbor.
C36_SelfNeverNeighbor ==
    \A k \in 1..Len(blocks) :
        LET rows == RangeLen(blocks[k].in_rows)
            cols == RangeLen(blocks[k].in_cols)
            out_shape == compute_out_shape(<<rows, cols>>, plan_args.strides)
        IN  \A out_r \in 0..(out_shape[1] - 1), out_c \in 0..(out_shape[2] - 1) :
                /\ plan_args.half_window \in
                      SetFalse(rows, cols, out_r, out_c, plan_args.strides,
                               plan_args.half_window)
                /\ Self(rows, cols, out_r, out_c, plan_args.strides,
                        plan_args.half_window) \in
                      SetFalse(rows, cols, out_r, out_c, plan_args.strides,
                               plan_args.half_window)

====
